---- MODULE Spec2Model ----
(***************************************************************************)
(* Model of brig's versioned object store (store.FS over a bucketed KV)    *)
(* and of the calls made on it: NextID, NodeByHash, ResolveNode,           *)
(* StageNode, StageCheckpoint, LastCheckpoint, History, SubmitCommit,      *)
(* SaveRef, Head; of the chunked compress.Writer (Write, ReadFrom, Close)  *)
(* and of the httpipfs pinger (Node.Ping, Run, Close and its readers).     *)
(*                                                                         *)
(* Paths are sequences of path components: "/" is << >>, "/d/b" is         *)
(* <<"d", "b">>, and the directory marker "/." is a last component ".".    *)
(* A node is a record [type, path, content]; content is the version of a   *)
(* file, the versions of every node below a directory (what its child      *)
(* list hashes to), or the content of the root a commit points to.         *)
(***************************************************************************)
EXTENDS Integers, Sequences, FiniteSets, TLC

VARIABLES
    kv,         \* the KV store, one field per bucket of the layout
    root,       \* FS.root: the path trie, path -> node data
    index,      \* FS.index: hash -> trie node (named by its path)
    ret,        \* the last call: its name, inputs and results
    boot,       \* whether the KV was opened with a HEAD commit in it
    staged,     \* path -> hash of the node last staged there by a successful StageNode
    headCommit, \* the commit HEAD was last set to (NoNode: none, or no commit)
    issued,     \* the ids NextID has returned without an error
    nOps,       \* number of calls made so far
    pc,         \* per thread: position inside a concurrent NextID
    cnt,        \* per thread: the local cnt of NextID
    got,        \* per thread: the ids NextID returned to it
    ckps,       \* the checkpoints StageCheckpoint staged since the last successful commit
    wr,         \* a compress.Writer and what it wrote to rawW
    wlog,       \* the last call on the Writer, and the calls made on it so far
    pg,         \* a pinger, its context and the position of its Run goroutine
    plog        \* the clock, and what the pinger has done and been asked so far

FSVars == <<kv, root, index, ret, boot, staged, headCommit, issued, nOps, pc, cnt, got, ckps>>
CodecVars == <<wr, wlog>>
PingVars == <<pg, plog>>
vars == <<FSVars, CodecVars, PingVars>>

(***************************************************************************)
(* Bounds                                                                  *)
(***************************************************************************)
MaxVer == 2       \* content versions of the file /d/b
MaxOps == 2       \* calls in one run
MaxCacheOps == 4  \* calls in one run of the cache specification
MaxID == 3        \* highest id NextID hands out in one run
MaxCalls == 2     \* NextID calls per thread in the concurrent runs
MaxCkpOps == 3    \* calls in one run of the checkpoint specification
MaxRaw == 5       \* bytes handed to one Writer
MaxReads == 2     \* Read results of one reader
MaxNow == 3       \* ticks of the pinger's ticker
MaxTrip == 2      \* longest roundtrip a ping reports

(***************************************************************************)
(* Errors                                                                  *)
(***************************************************************************)
Nil == "nil"
IOError == "IOError"
ErrNoChange == "ErrNoChange"
PanicNilNode == "panic: nil pointer dereference"
ErrNoHashFound == "ErrNoHashFound"
ErrBadNode == "ErrBadNode"
ErrNoPathFound == "ErrNoPathFound"
ErrBadNodeType == "ErrBadNodeType"
ErrTooShort == "multihash too short"
ErrUseSubmitCommit == "Please use SubmitCommit() for commits."
ErrHeadNotCommit == "oh-oh, HEAD is not a Commit..."
ErrNoLastCheckpoint == "No last checkpoint"
ErrUnmarshal == "unmarshal error"

(***************************************************************************)
(* Maps (buckets, the trie, the index)                                     *)
(***************************************************************************)
EmptyMap == << >>
Has(m, k) == k \in DOMAIN m
MapPut(m, k, v) == [x \in DOMAIN m \cup {k} |-> IF x = k THEN v ELSE m[x]]
Last(s) == s[Len(s)]

(***************************************************************************)
(* Nodes, their wire form and their hashes                                 *)
(***************************************************************************)
RootPath == << >>
DirPath == <<"d">>
FilePath == <<"d", "b">>
NoPath == <<"x">>
CommitPath == <<".commit">>

NoNode == [type |-> "none", path |-> << >>, content |-> << >>]

\* The in-memory trees a caller can hold: <<d, b>>, d = 1 when /d exists,
\* b the version of /d/b (0: no such file).
Trees == {t \in (0..1) \X (0..MaxVer) : t[2] > 0 => t[1] = 1}

File(t) == [type |-> "file", path |-> FilePath, content |-> <<t[2]>>]
Dir(t) == [type |-> "directory", path |-> DirPath, content |-> <<t[2]>>]
RootDir(t) == [type |-> "directory", path |-> RootPath, content |-> <<t[1], t[2]>>]

\* A node together with its Parent() chain up to the root.
Chains ==
    {<<RootDir(t)>> : t \in Trees}
    \cup {<<Dir(t), RootDir(t)>> : t \in {u \in Trees : u[1] = 1}}
    \cup {<<File(t), Dir(t), RootDir(t)>> : t \in {u \in Trees : u[2] > 0}}

TypeTag(type) ==
    CASE type = "file" -> 1
      [] type = "directory" -> 2
      [] type = "commit" -> 3
      [] OTHER -> 0

marshalNode(nd) == <<TypeTag(nd.type), nd.path, nd.content>>

unmarshalNode(data) ==
    CASE data[1] = 1 -> [node |-> [type |-> "file", path |-> data[2], content |-> data[3]], err |-> Nil]
      [] data[1] = 2 -> [node |-> [type |-> "directory", path |-> data[2], content |-> data[3]], err |-> Nil]
      [] data[1] = 3 -> [node |-> [type |-> "commit", path |-> data[2], content |-> data[3]], err |-> Nil]
      [] OTHER -> [node |-> NoNode, err |-> ErrBadNodeType]

\* The hash names the serialized node; its base58 string is the bucket key.
HashOf(nd) == <<"mh", marshalNode(nd)>>
NoHash == <<"nil", marshalNode(NoNode)>>

nodePath(nd) == nd.path

\* A commit whose Root() is the hash of the root directory rootNd.
Commit(rootNd) == [type |-> "commit", path |-> CommitPath, content |-> rootNd.content]
CommitRoot(cm) == HashOf([type |-> "directory", path |-> RootPath, content |-> cm.content])
Commits == {Commit(RootDir(t)) : t \in Trees}

\* The commit a bootstrapped store has under HEAD: its root is the empty root.
InitialCommit == Commit(RootDir(<<0, 0>>))

(***************************************************************************)
(* Paths                                                                   *)
(***************************************************************************)
RECURSIVE Clean(_)
Clean(p) ==
    IF p = << >> THEN << >>
    ELSE IF Head(p) = "." THEN Clean(Tail(p))
    ELSE <<Head(p)>> \o Clean(Tail(p))

Join(a, b) == Clean(a \o b)

appendDot(p) == Append(p, ".")

joinButLeaveLastDot(prefix, p) ==
    IF p # << >> /\ Last(p) = "." THEN appendDot(Join(prefix, p)) ELSE Join(prefix, p)

TreePrefix == <<"tree">>
StageTreePrefix == <<"stage", "tree">>

(***************************************************************************)
(* The KV store                                                            *)
(***************************************************************************)
EmptyKV ==
    [objects |-> EmptyMap, tree |-> EmptyMap, checkpoints |-> EmptyMap,
     stageObjects |-> EmptyMap, stageTree |-> EmptyMap, stageCheckpoints |-> EmptyMap,
     nodeCount |-> << >>, refs |-> EmptyMap]

BootKV ==
    [EmptyKV EXCEPT !.objects = MapPut(EmptyMap, HashOf(InitialCommit), marshalNode(InitialCommit)),
                    !.refs = MapPut(EmptyMap, "head", HashOf(InitialCommit))]

\* getPath / putPath: the hierarchical lookup of a slash separated key.
IsTreeKey(p) == Len(p) >= 1 /\ p[1] = "tree"
IsStageTreeKey(p) == Len(p) >= 2 /\ p[1] = "stage" /\ p[2] = "tree"

getPath(k, p) ==
    IF IsTreeKey(p)
    THEN (IF Has(k.tree, Tail(p)) THEN k.tree[Tail(p)] ELSE NoHash)
    ELSE IF IsStageTreeKey(p)
    THEN (IF Has(k.stageTree, Tail(Tail(p))) THEN k.stageTree[Tail(Tail(p))] ELSE NoHash)
    ELSE NoHash

putPath(k, p, hash) ==
    IF IsTreeKey(p) THEN [k EXCEPT !.tree = MapPut(@, Tail(p), hash)]
    ELSE IF IsStageTreeKey(p) THEN [k EXCEPT !.stageTree = MapPut(@, Tail(Tail(p)), hash)]
    ELSE k

(***************************************************************************)
(* The trie                                                                *)
(***************************************************************************)
Lookup(trie, p) == IF Has(trie, p) THEN trie[p] ELSE NoNode
InsertWithData(trie, p, nd) == MapPut(trie, p, nd)

(***************************************************************************)
(* The state of one FS and the results of its calls.  A call's KV          *)
(* operations are numbered in the order the code makes them; `fail' is the *)
(* number of the one that returns an error (0: none does) and `n' the      *)
(* number of KV operations made before the step at hand.                   *)
(***************************************************************************)
FSState == [kv |-> kv, root |-> root, index |-> index]

NewFilesystem(k) == [kv |-> k, root |-> EmptyMap, index |-> EmptyMap]

Res(st, nd, err) == [st |-> st, node |-> nd, err |-> err]

\* loadNode: probe objects, then stage/objects (Bucket and Get each may fail).
loadNode(k, hash, n, fail) ==
    IF fail \in {n + 1, n + 2} THEN [node |-> NoNode, err |-> IOError]
    ELSE IF Has(k.objects, hash) THEN unmarshalNode(k.objects[hash])
    ELSE IF fail \in {n + 3, n + 4} THEN [node |-> NoNode, err |-> IOError]
    ELSE IF Has(k.stageObjects, hash) THEN unmarshalNode(k.stageObjects[hash])
    ELSE [node |-> NoNode, err |-> ErrNoHashFound]

NodeByHash(st, hash, n, fail) ==
    IF Has(st.index, hash) /\ Lookup(st.root, st.index[hash]) # NoNode
    THEN Res(st, Lookup(st.root, st.index[hash]), Nil)
    ELSE LET l == loadNode(st.kv, hash, n, fail) IN
         IF l.err # Nil THEN Res(st, NoNode, l.err)
         ELSE Res([st EXCEPT !.root = InsertWithData(@, nodePath(l.node), l.node),
                             !.index = MapPut(@, hash, nodePath(l.node))],
                  l.node, Nil)

\* Mutant: a path found nowhere is reported as an error.
ResolveNodeNotFoundIsError(st, p, fail) ==
    IF Lookup(st.root, p) # NoNode THEN Res(st, Lookup(st.root, p), Nil)
    ELSE IF fail = 1 THEN Res(st, NoNode, IOError)
    ELSE LET h1 == getPath(st.kv, joinButLeaveLastDot(TreePrefix, p)) IN
         IF h1 # NoHash THEN NodeByHash(st, h1, 1, fail)
         ELSE IF fail = 2 THEN Res(st, NoNode, IOError)
         ELSE LET h2 == getPath(st.kv, joinButLeaveLastDot(StageTreePrefix, p)) IN
              IF h2 = NoHash THEN Res(st, NoNode, ErrNoPathFound)
              ELSE NodeByHash(st, h2, 2, fail)

ResolveNode(st, p, fail) ==
    IF Lookup(st.root, p) # NoNode THEN Res(st, Lookup(st.root, p), Nil)
    ELSE IF fail = 1 THEN Res(st, NoNode, IOError)
    ELSE LET h1 == getPath(st.kv, joinButLeaveLastDot(TreePrefix, p)) IN
         IF h1 # NoHash THEN NodeByHash(st, h1, 1, fail)
         ELSE IF fail = 2 THEN Res(st, NoNode, IOError)
         ELSE LET h2 == getPath(st.kv, joinButLeaveLastDot(StageTreePrefix, p)) IN
              IF h2 = NoHash THEN Res(st, NoNode, Nil)
              ELSE NodeByHash(st, h2, 2, fail)

ResolveDirectory(st, p, fail) ==
    LET r == ResolveNode(st, appendDot(Clean(p)), fail) IN
    IF r.err # Nil \/ r.node = NoNode THEN r
    ELSE IF r.node.type # "directory" THEN Res(r.st, NoNode, ErrBadNode)
    ELSE r

ResolveFile(st, p, fail) ==
    LET r == ResolveNode(st, p, fail) IN
    IF r.err # Nil \/ r.node = NoNode THEN r
    ELSE IF r.node.type # "file" THEN Res(r.st, NoNode, ErrBadNode)
    ELSE r

\* The key StageNode writes the path -> hash mapping under.
hashPathOf(nd) ==
    IF nd.type = "directory"
    THEN appendDot(Join(StageTreePrefix, nodePath(nd)))
    ELSE Join(StageTreePrefix, nodePath(nd))

\* What StageNode does for nd itself: the object, the path -> hash mapping, the caches.
StageSelf(st, nd, n, fail) ==
    IF fail \in {n + 1, n + 2} THEN Res(st, nd, IOError)
    ELSE LET st1 == [st EXCEPT !.kv.stageObjects = MapPut(@, HashOf(nd), marshalNode(nd))] IN
         IF fail = n + 3 THEN Res(st1, nd, IOError)
         ELSE Res([st1 EXCEPT !.kv = putPath(@, hashPathOf(nd), HashOf(nd)),
                              !.root = InsertWithData(@, nodePath(nd), nd),
                              !.index = MapPut(@, HashOf(nd), nodePath(nd))],
                  nd, Nil)

RECURSIVE StageNode(_, _, _, _)

\* Mutant: the parent is not staged.
StageNodeNoParent(st, chain, n, fail) ==
    IF Head(chain).type = "commit" THEN Res(st, Head(chain), ErrUseSubmitCommit)
    ELSE StageSelf(st, Head(chain), n, fail)

\* Mutant: a commit is staged like any other node.
StageNodeAnyType(st, chain, n, fail) ==
    LET r == StageSelf(st, Head(chain), n, fail) IN
    IF r.err # Nil \/ Tail(chain) = << >> THEN r
    ELSE StageNode(r.st, Tail(chain), n + 3, fail)

\* StageNode on the node chain[1], whose Parent() chain is the rest of chain.
StageNode(st, chain, n, fail) ==
    IF Head(chain).type = "commit" THEN Res(st, Head(chain), ErrUseSubmitCommit)
    ELSE LET r == StageSelf(st, Head(chain), n, fail) IN
         IF r.err # Nil \/ Tail(chain) = << >> THEN r
         ELSE StageNode(r.st, Tail(chain), n + 3, fail)

(***************************************************************************)
(* Encodings                                                               *)
(***************************************************************************)
\* binary.BigEndian.PutUint64 / Uint64: 8 bytes, most significant first.
RECURSIVE BigEndianBytes(_, _)
BigEndianBytes(v, len) ==
    IF len = 0 THEN << >> ELSE Append(BigEndianBytes(v \div 256, len - 1), v % 256)

RECURSIVE BigEndianValue(_)
BigEndianValue(b) ==
    IF b = << >> THEN 0 ELSE BigEndianValue(SubSeq(b, 1, Len(b) - 1)) * 256 + Last(b)

PutUint64(v) == BigEndianBytes(v, 8)
Uint64(b) == BigEndianValue(b)

\* strconv.FormatUint(v, 16) / strconv.ParseUint(s, 16, 64), digit by digit.
HexDigits == <<"0", "1", "2", "3", "4", "5", "6", "7", "8", "9", "a", "b", "c", "d", "e", "f">>

RECURSIVE FormatUint(_)
FormatUint(v) ==
    IF v < 16 THEN <<HexDigits[v + 1]>> ELSE Append(FormatUint(v \div 16), HexDigits[(v % 16) + 1])

DigitValue(c) == CHOOSE d \in 0..15 : HexDigits[d + 1] = c

RECURSIVE ParseUint(_)
ParseUint(s) ==
    IF Len(s) = 1 THEN DigitValue(s[1])
    ELSE ParseUint(SubSeq(s, 1, Len(s) - 1)) * 16 + DigitValue(Last(s))

ToLower(refname) == IF refname = "HEAD" THEN "head" ELSE refname

(***************************************************************************)
(* NextID                                                                  *)
(***************************************************************************)
\* The cnt NextID computes from what Get("node-count") returned.
NextCount(nodeCount) == IF nodeCount # << >> THEN Uint64(nodeCount) + 1 ELSE 1

\* What NextID returns when Put("node-count") fails.
PutFailed == [id |-> 0, err |-> Nil]

NextID(k, fail) ==
    IF fail \in {1, 2} THEN [kv |-> k, id |-> 0, err |-> IOError]
    ELSE LET c == NextCount(k.nodeCount) IN
         IF fail = 3 THEN [kv |-> k, id |-> PutFailed.id, err |-> PutFailed.err]
         ELSE [kv |-> [k EXCEPT !.nodeCount = PutUint64(c)], id |-> c, err |-> Nil]

(***************************************************************************)
(* Checkpoints                                                             *)
(***************************************************************************)
CkpIDs == {7}
CkpIndices == {1, 2}
Checkpoints == [idLink : CkpIDs, index : CkpIndices]

marshalCheckpoint(ckp) == <<ckp.idLink, ckp.index>>

StageCheckpoint(k, ckp, fail) ==
    IF fail \in {1, 2} THEN [kv |-> k, err |-> IOError]
    ELSE [kv |-> [k EXCEPT !.stageCheckpoints =
                      MapPut(@, FormatUint(ckp.idLink), marshalCheckpoint(ckp))],
          err |-> Nil]

unmarshalCheckpoint(data) == [idLink |-> data[1], index |-> data[2]]

\* newEmptyCheckpoint(): a checkpoint with no field set.
EmptyCheckpoint == [idLink |-> 0, index |-> 0]

\* Bucket(path + [key]): the bucket below a bucket.  The code Puts values
\* directly under stage/checkpoints and nothing under checkpoints, so no bucket
\* below either has an entry; where key already holds a value the KV either
\* refuses the bucket (nested = "error") or hands out an empty one.
NestedOutcomes == {"error", "empty"}

SubBucket(bucket, key, nested) ==
    IF Has(bucket, key) /\ nested = "error"
    THEN [entries |-> EmptyMap, err |-> IOError]
    ELSE [entries |-> EmptyMap, err |-> Nil]

\* Keys of a bucket are ordered byte-wise.
RECURSIVE KeyLeq(_, _)
KeyLeq(a, b) ==
    IF a = << >> THEN TRUE
    ELSE IF b = << >> THEN FALSE
    ELSE IF a[1] # b[1] THEN DigitValue(a[1]) < DigitValue(b[1])
    ELSE KeyLeq(Tail(a), Tail(b))

\* Bucket.Last(): the value under the highest key, nil (<< >>) in an empty bucket.
BucketLast(entries) ==
    IF DOMAIN entries = {} THEN << >>
    ELSE entries[CHOOSE k \in DOMAIN entries : \A j \in DOMAIN entries : KeyLeq(j, k)]

\* ckp.Unmarshal(nil): an empty checkpoint, or an error of the decoder.
LastOutcomes == {"zero", "error"}

\* LastCheckpoint returns from inside the first round of its loop over
\* checkpoints/<key> and stage/checkpoints/<key>: only checkpoints/<key> is read,
\* and the "No last checkpoint" return after the loop is never reached.
LastCheckpoint(k, IDLink, fail, nested, last) ==
    LET key == FormatUint(IDLink)
        bkt == SubBucket(k.checkpoints, key, nested)
        pckp == BucketLast(bkt.entries)
    IN  IF fail = 1 \/ bkt.err # Nil THEN [out |-> << >>, err |-> IOError]
        ELSE IF fail = 2 THEN [out |-> << >>, err |-> IOError]
        ELSE IF pckp = << >>
        THEN IF last = "error" THEN [out |-> << >>, err |-> ErrUnmarshal]
             ELSE [out |-> <<EmptyCheckpoint>>, err |-> Nil]
        ELSE [out |-> <<unmarshalCheckpoint(pckp)>>, err |-> Nil]

\* sort.Sort(&history): ascending by index.
RECURSIVE SortByIndex(_)
SortByIndex(set) ==
    IF set = {} THEN << >>
    ELSE LET lo == CHOOSE c \in set : \A d \in set : c.index <= d.index
         IN  <<lo>> \o SortByIndex(set \ {lo})

Values(entries) == {unmarshalCheckpoint(entries[key]) : key \in DOMAIN entries}

\* History's KV operations: 1-2 Bucket and Foreach of checkpoints/<key>, 3-4 of
\* stage/checkpoints/<key>.
History(k, IDLink, fail, nested) ==
    LET key == FormatUint(IDLink)
        live == SubBucket(k.checkpoints, key, nested)
        stage == SubBucket(k.stageCheckpoints, key, nested)
    IN  IF fail \in {1, 2} \/ live.err # Nil THEN [out |-> << >>, err |-> IOError]
        ELSE IF fail \in {3, 4} \/ stage.err # Nil THEN [out |-> << >>, err |-> IOError]
        ELSE [out |-> SortByIndex(Values(live.entries) \cup Values(stage.entries)), err |-> Nil]

\* Node.ID(): the file of the model carries the id checkpoints are staged for,
\* every other node an id nothing is staged for.
NodeID(nd) == IF nd.type = "file" THEN 7 ELSE 8

\* HistoryByPath's KV operations: 1-6 in ResolveNode, 7-10 those of History.
\* ResolveNode answers (nil, nil) for a path found nowhere, and nd.ID() is
\* then a method call on a nil Node: the call panics.
HistoryByPath(st, p, fail, nested) ==
    LET r == ResolveNode(st, p, fail) IN
    IF r.err # Nil THEN [st |-> r.st, node |-> NoNode, out |-> << >>, err |-> r.err]
    ELSE IF r.node = NoNode
    THEN [st |-> r.st, node |-> NoNode, out |-> << >>, err |-> PanicNilNode]
    ELSE LET h == History(r.st.kv, NodeID(r.node), IF fail > 6 THEN fail - 6 ELSE 0, nested)
         IN  [st |-> r.st, node |-> r.node, out |-> h.out, err |-> h.err]

(***************************************************************************)
(* References and commits                                                  *)
(***************************************************************************)
ResolveRef(st, refname, fail) ==
    IF fail \in {1, 2} THEN Res(st, NoNode, IOError)
    ELSE IF ~Has(st.kv.refs, ToLower(refname)) THEN Res(st, NoNode, ErrTooShort)
    ELSE NodeByHash(st, st.kv.refs[ToLower(refname)], 2, fail)

SaveRef(k, refname, nd) == [k EXCEPT !.refs = MapPut(@, ToLower(refname), HashOf(nd))]

HeadOf(st, fail) ==
    LET r == ResolveRef(st, "HEAD", fail) IN
    IF r.err # Nil THEN r
    ELSE IF r.node.type # "commit" THEN Res(r.st, NoNode, ErrHeadNotCommit)
    ELSE r

\* Mutant: HEAD is saved before stage/checkpoints is walked.
SubmitCommitSaveFirst(st, cm, fail, nested) ==
    LET h == HeadOf(st, fail) IN
    IF h.err # Nil THEN Res(h.st, cm, h.err)
    ELSE IF CommitRoot(cm) = CommitRoot(h.node) THEN Res(h.st, cm, ErrNoChange)
    ELSE LET saved == [h.st EXCEPT !.kv = SaveRef(@, "HEAD", cm)] IN
         IF fail \in {7, 8} THEN Res(saved, cm, IOError)
         ELSE IF DOMAIN h.st.kv.stageCheckpoints # {} /\ (fail = 9 \/ nested = "error")
         THEN Res(saved, cm, IOError)
         ELSE Res(saved, cm, Nil)

\* SubmitCommit's KV operations: 1-6 in Head(), 7-8 the listing of
\* stage/checkpoints, 9 inside the loop over its keys, 10-11 in SaveRef.
\* The copy of stage/* to the live buckets and the clearing of the stage are
\* commented out in the code: nothing of them runs.
SubmitCommit(st, cm, fail, nested) ==
    LET h == HeadOf(st, fail) IN
    IF h.err # Nil THEN Res(h.st, cm, h.err)
    ELSE IF CommitRoot(cm) = CommitRoot(h.node) THEN Res(h.st, cm, ErrNoChange)
    ELSE IF fail \in {7, 8} THEN Res(h.st, cm, IOError)
    ELSE IF DOMAIN h.st.kv.stageCheckpoints # {} /\ (fail = 9 \/ nested = "error")
    THEN Res(h.st, cm, IOError)
    ELSE IF fail \in {10, 11} THEN Res(h.st, cm, IOError)
    ELSE Res([h.st EXCEPT !.kv = SaveRef(@, "HEAD", cm)], cm, Nil)

\* Foreach visits the keys of a bucket once each, in key order.
RECURSIVE KeysInOrder(_)
KeysInOrder(keys) ==
    IF keys = {} THEN << >>
    ELSE LET lo == CHOOSE a \in keys : \A b \in keys : KeyLeq(a, b)
         IN  <<lo>> \o KeysInOrder(keys \ {lo})

\* The links one round of SubmitCommit's loop appends: one for every key of
\* the bucket stage/checkpoints/<histKey>.
RECURSIVE LinksOf(_, _)
LinksOf(IDLink, indexStrs) ==
    IF indexStrs = << >> THEN << >>
    ELSE <<[idLink |-> IDLink, index |-> ParseUint(Head(indexStrs))]>>
         \o LinksOf(IDLink, Tail(indexStrs))

\* cm.changeset after SubmitCommit's loop over histList, for a commit that came
\* with an empty changeset.
RECURSIVE Changeset(_, _, _)
Changeset(k, histList, nested) ==
    IF histList = << >> THEN << >>
    ELSE LET histBkt == SubBucket(k.stageCheckpoints, Head(histList), nested) IN
         IF histBkt.err # Nil THEN << >>
         ELSE LinksOf(ParseUint(Head(histList)), KeysInOrder(DOMAIN histBkt.entries))
              \o Changeset(k, Tail(histList), nested)


(***************************************************************************)
(* compress.Writer                                                         *)
(*                                                                         *)
(* A Writer is a record of its fields; sink is what rawW has been handed.  *)
(* The collaborator calls of one Writer call (rawW.Write, algo.Encode) are *)
(* numbered in the order they are made: fail is the one that returns an    *)
(* error (0: none), ops counts those made so far.                          *)
(***************************************************************************)
maxChunkSize == 2
headerSize == 8
indexChunkSize == 16
trailerSize == 14

\* The error a failing algo.Encode, rawW.Write or Read returned, whichever it
\* is; only ReadFrom treats one of them, io.EOF, apart.
ErrEncode == "encode error"
ErrWrite == "write error"
ErrRead == "read error"

Min(a, b) == IF a < b THEN a ELSE b

\* algo.Encode / algo.Decode: a length byte, then the bytes complemented.
Encode(data) == <<Len(data)>> \o [i \in 1..Len(data) |-> 255 - data[i]]
Decodable(enc) == Len(enc) > 0 /\ enc[1] = Len(enc) - 1
Decode(enc) == [i \in 1..(Len(enc) - 1) |-> 255 - enc[i + 1]]

algoType == 1
currentVersion == 1

\* makeHeader: magic, algorithm type, version in 8 bytes.
makeHeader(algo, version) == <<98, 114, 105, 103>> \o BigEndianBytes(algo, 2) \o BigEndianBytes(version, 2)

\* record.marshal / trailer.marshal: big-endian fields.
marshalRecord(rec) == PutUint64(rec.rawOff) \o PutUint64(rec.zipOff)
unmarshalRecord(b) == [rawOff |-> Uint64(SubSeq(b, 1, 8)), zipOff |-> Uint64(SubSeq(b, 9, 16))]
marshalTrailer(t) == BigEndianBytes(t.algo, 2) \o BigEndianBytes(t.chunkSize, 4) \o PutUint64(t.indexSize)
unmarshalTrailer(b) ==
    [algo |-> BigEndianValue(SubSeq(b, 1, 2)),
     chunkSize |-> BigEndianValue(SubSeq(b, 3, 6)),
     indexSize |-> Uint64(SubSeq(b, 7, 14))]

NewWriter ==
    [sink |-> << >>, chunkBuf |-> << >>, index |-> << >>, rawOff |-> 0, zipOff |-> 0,
     trailer |-> [algo |-> 0, chunkSize |-> 0, indexSize |-> 0], headerWritten |-> FALSE]

WRes(w, ops, n, err) == [w |-> w, ops |-> ops, n |-> n, err |-> err]

addRecordToIndex(w) ==
    [w EXCEPT !.index = Append(@, [rawOff |-> w.rawOff, zipOff |-> w.zipOff])]

\* flushBuffer: Encode is collaborator call ops + 1, rawW.Write is ops + 2.
flushBuffer(w, data, ops, fail) ==
    IF Len(data) <= 0 THEN WRes(w, ops, 0, Nil)
    ELSE LET w1 == addRecordToIndex(w)
             encData == Encode(data)
         IN  IF fail = ops + 1 THEN WRes(w1, ops + 1, 0, ErrEncode)
             ELSE IF fail = ops + 2 THEN WRes(w1, ops + 2, 0, ErrWrite)
             ELSE WRes([w1 EXCEPT !.sink = @ \o encData,
                                  !.rawOff = @ + Len(data),
                                  !.zipOff = @ + Len(encData)],
                       ops + 2, Len(encData), Nil)

\* Mutant: the header is written without counting it in zipOff.
writeHeaderUncounted(w, ops, fail) ==
    IF w.headerWritten THEN WRes(w, ops, 0, Nil)
    ELSE IF fail = ops + 1 THEN WRes(w, ops + 1, 0, ErrWrite)
    ELSE WRes([w EXCEPT !.sink = @ \o makeHeader(algoType, currentVersion),
                        !.headerWritten = TRUE],
              ops + 1, headerSize, Nil)

writeHeaderIfNeeded(w, ops, fail) ==
    IF w.headerWritten THEN WRes(w, ops, 0, Nil)
    ELSE IF fail = ops + 1 THEN WRes(w, ops + 1, 0, ErrWrite)
    ELSE WRes([w EXCEPT !.sink = @ \o makeHeader(algoType, currentVersion),
                        !.headerWritten = TRUE,
                        !.zipOff = @ + headerSize],
              ops + 1, headerSize, Nil)

\* The loop of Write: p is what is left of the argument.
RECURSIVE WriteLoop(_, _, _, _, _)
\* Mutant: the whole buffer is flushed once it has reached maxChunkSize.
WriteLoopWholeBuffer(w, p, written, ops, fail) ==
    LET buf == w.chunkBuf \o p
    IN  IF Len(buf) < maxChunkSize THEN WRes([w EXCEPT !.chunkBuf = buf], ops, written, Nil)
        ELSE LET f == flushBuffer([w EXCEPT !.chunkBuf = << >>], buf, ops, fail)
             IN  IF f.err # Nil THEN WRes(f.w, f.ops, 0, f.err) ELSE WRes(f.w, f.ops, written, Nil)

WriteLoop(w, p, written, ops, fail) ==
    LET n == Min(Len(p), maxChunkSize)
        buf == w.chunkBuf \o SubSeq(p, 1, n)
    IN  IF Len(buf) < maxChunkSize THEN WRes([w EXCEPT !.chunkBuf = buf], ops, written, Nil)
        ELSE LET f == flushBuffer([w EXCEPT !.chunkBuf = SubSeq(buf, maxChunkSize + 1, Len(buf))],
                                  SubSeq(buf, 1, maxChunkSize), ops, fail)
             IN  IF f.err # Nil THEN WRes(f.w, f.ops, 0, f.err)
                 ELSE WriteLoop(f.w, SubSeq(p, n + 1, Len(p)), written, f.ops, fail)

Write(w, p, fail) ==
    LET h == writeHeaderIfNeeded(w, 0, fail) IN
    IF h.err # Nil THEN WRes(h.w, h.ops, 0, h.err)
    ELSE WriteLoop(h.w, p, Len(p), h.ops, fail)

\* A reader: the data of its successive Read results, and how it ends: with EOF
\* on the last of them, with EOF on a Read of its own, with an error on a Read
\* of its own, or with an error on the last of them.
ReaderEnds == {"eof with data", "eof", "error", "error with data"}

\* The loop of ReadFrom: reads is what the reader has still to hand out.  A Read
\* that returns an error other than io.EOF ends the call with that error, its
\* bytes counted and not flushed.  eof says that the error of the failing
\* collaborator of flushBuffer is io.EOF: ReadFrom then returns nil, leaving
\* the rest of the reader unread.
RECURSIVE ReadFromLoop(_, _, _, _, _, _, _)
ReadFromLoop(w, reads, end, read, ops, fail, eof) ==
    IF reads = << >>
    THEN IF end = "error" THEN WRes(w, ops, read, ErrRead) ELSE WRes(w, ops, read, Nil)
    ELSE LET n == Len(Head(reads)) IN
         IF Len(reads) = 1 /\ end = "error with data" THEN WRes(w, ops, read + n, ErrRead)
         ELSE LET f == flushBuffer(w, Head(reads), ops, fail) IN
              IF f.err # Nil /\ ~eof THEN WRes(f.w, f.ops, read + n, f.err)
              ELSE IF f.err # Nil THEN WRes(f.w, f.ops, read + n, Nil)
              ELSE IF Len(reads) = 1 /\ end = "eof with data" THEN WRes(f.w, f.ops, read + n, Nil)
              ELSE ReadFromLoop(f.w, Tail(reads), end, read + n, f.ops, fail, eof)

ReadFrom(w, reads, end, fail, eof) ==
    LET h == writeHeaderIfNeeded(w, 0, fail) IN
    IF h.err # Nil THEN WRes(h.w, h.ops, 0, h.err)
    ELSE ReadFromLoop(h.w, reads, end, 0, h.ops, fail, eof)

RECURSIVE marshalIndex(_)
marshalIndex(recs) ==
    IF recs = << >> THEN << >> ELSE marshalRecord(Head(recs)) \o marshalIndex(Tail(recs))

\* Mutant: Close emits the index without the closing record.
CloseNoSentinel(w, fail) ==
    LET h == writeHeaderIfNeeded(w, 0, fail) IN
    IF h.err # Nil THEN WRes(h.w, h.ops, 0, h.err)
    ELSE LET f == flushBuffer(h.w, h.w.chunkBuf, h.ops, fail) IN
         IF f.err # Nil THEN WRes(f.w, f.ops, 0, f.err)
         ELSE LET w2 == [f.w EXCEPT !.trailer.indexSize = indexChunkSize * Len(f.w.index)]
              IN  IF fail = f.ops + 1 THEN WRes(w2, f.ops + 1, 0, ErrWrite)
                  ELSE LET w3 == [w2 EXCEPT !.sink = @ \o marshalIndex(w2.index)] IN
                       IF fail = f.ops + 2 THEN WRes(w3, f.ops + 2, 0, ErrWrite)
                       ELSE WRes([w3 EXCEPT !.sink = @ \o marshalTrailer(w3.trailer)],
                                 f.ops + 2, 0, Nil)

Close(w, fail) ==
    LET h == writeHeaderIfNeeded(w, 0, fail) IN
    IF h.err # Nil THEN WRes(h.w, h.ops, 0, h.err)
    ELSE LET f == flushBuffer(h.w, h.w.chunkBuf, h.ops, fail) IN
         IF f.err # Nil THEN WRes(f.w, f.ops, 0, f.err)
         ELSE LET w1 == addRecordToIndex(f.w)
                  w2 == [w1 EXCEPT !.trailer.indexSize = indexChunkSize * Len(w1.index)]
              IN  IF fail = f.ops + 1 THEN WRes(w2, f.ops + 1, 0, ErrWrite)
                  ELSE LET w3 == [w2 EXCEPT !.sink = @ \o marshalIndex(w2.index)] IN
                       IF fail = f.ops + 2 THEN WRes(w3, f.ops + 2, 0, ErrWrite)
                       ELSE WRes([w3 EXCEPT !.sink = @ \o marshalTrailer(w3.trailer)],
                                 f.ops + 2, 0, Nil)

(***************************************************************************)
(* httpipfs pinger                                                         *)
(*                                                                         *)
(* pg holds the pinger's fields (lastSeen, roundtrip, err, cancel), whether*)
(* its context is cancelled (done) and where its Run goroutine stands.     *)
(* Every access to lastSeen, roundtrip and err is made with mu held, so a  *)
(* locked section is one step.                                             *)
(***************************************************************************)
ErrWaiting == "waiting for route"
ErrNoPing == "no ping"
ErrOffline == "offline"
ErrIdentity == "identity error"

NoPinger ==
    [run |-> "none", self |-> FALSE, lastSeen |-> 0, roundtrip |-> 0, err |-> Nil,
     cancel |-> FALSE, done |-> FALSE]

\* Node.Ping: the pinger it returns, with its goroutine started.
Ping(self) ==
    [run |-> "start", self |-> self, lastSeen |-> 0, roundtrip |-> 0, err |-> ErrWaiting,
     cancel |-> TRUE, done |-> FALSE]

\* ping(): a roundtrip and no error, or an error.
PingResults == [roundtrip : 1..MaxTrip, err : {Nil}] \cup [roundtrip : {0}, err : {ErrNoPing}]

\* The locked section of Run after a tick on which the node pings itself.
selfTick(p, now) == [p EXCEPT !.err = Nil, !.lastSeen = now, !.roundtrip = 0]

\* Mutant: a failed ping clears what the last success left.
pingDoneForgets(p, res, now) ==
    IF res.err # Nil THEN [p EXCEPT !.err = res.err, !.lastSeen = 0, !.roundtrip = 0]
    ELSE [p EXCEPT !.err = Nil, !.lastSeen = now, !.roundtrip = res.roundtrip]

\* The locked section of Run after ping() has returned.
pingDone(p, res, now) ==
    IF res.err # Nil THEN [p EXCEPT !.err = res.err]
    ELSE [p EXCEPT !.err = Nil, !.lastSeen = now, !.roundtrip = res.roundtrip]

\* pinger.Close
ClosePinger(p) == [p EXCEPT !.done = @ \/ p.cancel, !.cancel = FALSE]

(***************************************************************************)
(* The calls of a single writer on one KV                                  *)
(***************************************************************************)
Threads == {1, 2}
StagedPaths == {RootPath, DirPath, FilePath}
ResolvePaths == StagedPaths \cup {NoPath}

Ret(op, arg, p, r, id) ==
    [op |-> op, arg |-> arg, path |-> p, node |-> r.node, err |-> r.err, id |-> id,
     out |-> IF "out" \in DOMAIN r THEN r.out ELSE << >>]

NoRes == [node |-> NoNode, err |-> Nil]

\* The clock; the ping requests issued and the attempts completed so far; the
\* result of the last attempt and what the last success set; the rounds of Run's
\* loop taken on a cancelled context; the last answer given to a reader.
NoPings ==
    [now |-> 0, pings |-> 0, attempts |-> 0, result |-> "none", okSeen |-> 0, okTrip |-> 0,
     spins |-> 0, obs |-> [op |-> "none", err |-> Nil, val |-> 0]]

\* The last call on the Writer (op, the pieces it was given, what it returned),
\* all bytes given to the Writer so far, whether a call has failed, whether Close
\* has been called.
WLog(op, arg, n, err, input, failed, closed) ==
    [op |-> op, arg |-> arg, n |-> n, err |-> err, input |-> input, failed |-> failed, closed |-> closed]

Init ==
    /\ boot \in BOOLEAN
    /\ kv = IF boot THEN BootKV ELSE EmptyKV
    /\ root = EmptyMap
    /\ index = EmptyMap
    /\ ret = Ret("NewFilesystem", << >>, << >>, NoRes, 0)
    /\ staged = [p \in StagedPaths |-> NoHash]
    /\ headCommit = IF boot THEN InitialCommit ELSE NoNode
    /\ issued = {}
    /\ nOps = 0
    /\ pc = [t \in Threads |-> "idle"]
    /\ cnt = [t \in Threads |-> 0]
    /\ got = [t \in Threads |-> << >>]
    /\ ckps = {}
    /\ pg = NoPinger
    /\ plog = NoPings
    /\ wr = NewWriter
    /\ wlog = WLog("NewWriter", << >>, 0, Nil, << >>, FALSE, FALSE)

ThreadVars == <<pc, cnt, got>>

Install(st) ==
    /\ kv' = st.kv
    /\ root' = st.root
    /\ index' = st.index

\* The KV operation that fails in a call: any of its k operations, or none.
FailSet(faults, k) == IF faults THEN 0..k ELSE {0}

\* NewFilesystem on the same KV: a restart of the process.
NewFilesystemStep(limit, faults) ==
    /\ nOps < limit
    /\ nOps' = nOps + 1
    /\ root' = NewFilesystem(kv).root
    /\ index' = NewFilesystem(kv).index
    /\ ret' = Ret("NewFilesystem", << >>, << >>, NoRes, 0)
    /\ UNCHANGED <<kv, boot, staged, headCommit, issued, ThreadVars, ckps, CodecVars, PingVars>>

ChainPaths(chain) == {chain[i].path : i \in 1..Len(chain)}
ChainNode(chain, p) == chain[CHOOSE i \in 1..Len(chain) : chain[i].path = p]

StageNodeStep(limit, faults) ==
    /\ nOps < limit
    /\ \E chain \in Chains \cup {<<cm>> : cm \in Commits} :
       \E fail \in FailSet(faults, 3 * Len(chain)) :
          LET r == StageNode(FSState, chain, 0, fail) IN
          /\ Install(r.st)
          /\ ret' = Ret("StageNode", chain, nodePath(Head(chain)), [node |-> Head(chain), err |-> r.err], 0)
          /\ staged' = [p \in StagedPaths |->
                           IF p \notin ChainPaths(chain) THEN staged[p]
                           ELSE IF r.err = Nil THEN HashOf(ChainNode(chain, p))
                           ELSE IF r.st = FSState THEN staged[p]
                           ELSE NoHash]
    /\ nOps' = nOps + 1
    /\ UNCHANGED <<boot, headCommit, issued, ThreadVars, ckps, CodecVars, PingVars>>

StageCheckpointStep(limit, faults) ==
    /\ nOps < limit
    /\ \E ckp \in Checkpoints, fail \in FailSet(faults, 2) :
          LET r == StageCheckpoint(kv, ckp, fail) IN
          /\ kv' = r.kv
          /\ ret' = Ret("StageCheckpoint", << >>, << >>, [node |-> NoNode, err |-> r.err], ckp.idLink)
          /\ ckps' = IF r.err = Nil THEN ckps \cup {ckp} ELSE ckps
    /\ nOps' = nOps + 1
    /\ UNCHANGED <<root, index, boot, staged, headCommit, issued, ThreadVars, CodecVars, PingVars>>

\* ret.out is cm.changeset as the caller finds it after a successful call.
SubmitCommitStep(limit, faults) ==
    /\ nOps < limit
    /\ \E cm \in Commits, fail \in FailSet(faults, 11), nested \in NestedOutcomes :
          LET r == SubmitCommit(FSState, cm, fail, nested) IN
          /\ Install(r.st)
          /\ ret' = Ret("SubmitCommit", <<cm>>, << >>,
                        [node |-> r.node, err |-> r.err,
                         out |-> IF r.err # Nil THEN << >>
                                 ELSE Changeset(kv, KeysInOrder(DOMAIN kv.stageCheckpoints), nested)],
                        0)
          /\ headCommit' = IF r.err = Nil THEN cm ELSE headCommit
          /\ ckps' = IF r.err = Nil THEN {} ELSE ckps
    /\ nOps' = nOps + 1
    /\ UNCHANGED <<boot, staged, issued, ThreadVars, CodecVars, PingVars>>

\* SaveRef called by a client, with any node: Bucket("refs") is KV operation 1,
\* Put operation 2.  HEAD is then whatever was saved, a commit or not, stored
\* in the KV or not.
SaveRefStep(limit, faults) ==
    /\ nOps < limit
    /\ \E nd \in Commits \cup {c[1] : c \in Chains}, fail \in FailSet(faults, 2) :
          LET err == IF fail # 0 THEN IOError ELSE Nil IN
          /\ kv' = IF fail # 0 THEN kv ELSE SaveRef(kv, "HEAD", nd)
          /\ ret' = Ret("SaveRef", <<nd>>, << >>, [node |-> nd, err |-> err], 0)
          /\ headCommit' = IF fail # 0 THEN headCommit
                            ELSE IF nd.type = "commit" THEN nd ELSE NoNode
    /\ nOps' = nOps + 1
    /\ UNCHANGED <<root, index, boot, staged, issued, ThreadVars, ckps, CodecVars, PingVars>>

NextIDCall ==
    /\ NextCount(kv.nodeCount) <= MaxID
    /\ \E fail \in 0..3 :
          LET r == NextID(kv, fail) IN
          /\ kv' = r.kv
          /\ ret' = Ret("NextID", << >>, << >>, [node |-> NoNode, err |-> r.err], r.id)
          /\ issued' = IF r.err = Nil THEN issued \cup {r.id} ELSE issued
    /\ UNCHANGED <<root, index, boot, staged, headCommit, nOps, ThreadVars, ckps, CodecVars, PingVars>>

HeadStep(limit, faults) ==
    /\ nOps < limit
    /\ nOps' = nOps + 1
    /\ \E fail \in FailSet(faults, 6) :
       LET r == HeadOf(FSState, fail) IN
       /\ Install(r.st)
       /\ ret' = Ret("Head", << >>, << >>, r, 0)
       /\ UNCHANGED <<boot, staged, headCommit, issued, ThreadVars, ckps, CodecVars, PingVars>>

AllHashes == {HashOf(c[1]) : c \in Chains} \cup {HashOf(cm) : cm \in Commits}

NodeByHashStep(limit, faults) ==
    /\ nOps < limit
    /\ nOps' = nOps + 1
    /\ \E hash \in AllHashes, fail \in FailSet(faults, 4) :
       LET r == NodeByHash(FSState, hash, 0, fail) IN
       /\ Install(r.st)
       /\ ret' = Ret("NodeByHash", << >>, hash[2][2], r, 0)
       /\ UNCHANGED <<boot, staged, headCommit, issued, ThreadVars, ckps, CodecVars, PingVars>>

ResolveNodeStep(limit, faults) ==
    /\ nOps < limit
    /\ nOps' = nOps + 1
    /\ \E p \in ResolvePaths \cup {appendDot(q) : q \in ResolvePaths}, fail \in FailSet(faults, 6) :
       LET r == ResolveNode(FSState, p, fail) IN
       /\ Install(r.st)
       /\ ret' = Ret("ResolveNode", << >>, p, r, 0)
       /\ UNCHANGED <<boot, staged, headCommit, issued, ThreadVars, ckps, CodecVars, PingVars>>

ResolveDirectoryStep(limit, faults) ==
    /\ nOps < limit
    /\ nOps' = nOps + 1
    /\ \E p \in ResolvePaths, fail \in FailSet(faults, 6) :
       LET r == ResolveDirectory(FSState, p, fail) IN
       /\ Install(r.st)
       /\ ret' = Ret("ResolveDirectory", << >>, p, r, 0)
       /\ UNCHANGED <<boot, staged, headCommit, issued, ThreadVars, ckps, CodecVars, PingVars>>

ResolveFileStep(limit, faults) ==
    /\ nOps < limit
    /\ nOps' = nOps + 1
    /\ \E p \in ResolvePaths, fail \in FailSet(faults, 6) :
       LET r == ResolveFile(FSState, p, fail) IN
       /\ Install(r.st)
       /\ ret' = Ret("ResolveFile", << >>, p, r, 0)
       /\ UNCHANGED <<boot, staged, headCommit, issued, ThreadVars, ckps, CodecVars, PingVars>>

\* The ids checkpoints are asked for: those staged, and one nothing is staged for.
QueryIDs == CkpIDs \cup {8}

LastCheckpointStep(limit, faults) ==
    /\ nOps < limit
    /\ nOps' = nOps + 1
    /\ \E id \in QueryIDs, fail \in FailSet(faults, 2), nested \in NestedOutcomes, last \in LastOutcomes :
          LET r == LastCheckpoint(kv, id, fail, nested, last) IN
          ret' = Ret("LastCheckpoint", << >>, << >>, [node |-> NoNode, err |-> r.err, out |-> r.out], id)
    /\ UNCHANGED <<kv, root, index, boot, staged, headCommit, issued, ThreadVars, ckps, CodecVars, PingVars>>

HistoryStep(limit, faults) ==
    /\ nOps < limit
    /\ nOps' = nOps + 1
    /\ \E id \in QueryIDs, fail \in FailSet(faults, 4), nested \in NestedOutcomes :
          LET r == History(kv, id, fail, nested) IN
          ret' = Ret("History", << >>, << >>, [node |-> NoNode, err |-> r.err, out |-> r.out], id)
    /\ UNCHANGED <<kv, root, index, boot, staged, headCommit, issued, ThreadVars, ckps, CodecVars, PingVars>>

HistoryByPathStep(limit, faults) ==
    /\ nOps < limit
    /\ nOps' = nOps + 1
    /\ \E p \in ResolvePaths, fail \in FailSet(faults, 10), nested \in NestedOutcomes :
          LET r == HistoryByPath(FSState, p, fail, nested) IN
          /\ Install(r.st)
          /\ ret' = Ret("HistoryByPath", << >>, p, r, 0)
    /\ UNCHANGED <<boot, staged, headCommit, issued, ThreadVars, ckps, CodecVars, PingVars>>

NewFilesystemCall == NewFilesystemStep(MaxOps, TRUE)
StageNodeCall == StageNodeStep(MaxOps, TRUE)
StageCheckpointCall == StageCheckpointStep(MaxOps, TRUE)
SubmitCommitCall == SubmitCommitStep(MaxOps, TRUE)
SaveRefCall == SaveRefStep(MaxOps, TRUE)
HeadCall == HeadStep(MaxOps, TRUE)
NodeByHashCall == NodeByHashStep(MaxOps, TRUE)
ResolveNodeCall == ResolveNodeStep(MaxOps, TRUE)
ResolveDirectoryCall == ResolveDirectoryStep(MaxOps, TRUE)
ResolveFileCall == ResolveFileStep(MaxOps, TRUE)

NextCommit ==
    \/ NewFilesystemCall
    \/ StageNodeCall
    \/ StageCheckpointCall
    \/ SubmitCommitCall
    \/ SaveRefCall
    \/ HeadCall

SpecCommit == Init /\ [][NextCommit]_vars

NextStage ==
    \/ NewFilesystemCall
    \/ StageNodeCall
    \/ NodeByHashCall
    \/ ResolveNodeCall
    \/ ResolveDirectoryCall
    \/ ResolveFileCall

SpecStage == Init /\ [][NextStage]_vars

\* The same calls on a KV that does not fail, two calls deeper.
NextCache ==
    \/ NewFilesystemStep(MaxCacheOps, FALSE)
    \/ StageNodeStep(MaxCacheOps, FALSE)
    \/ NodeByHashStep(MaxCacheOps, FALSE)
    \/ ResolveNodeStep(MaxCacheOps, FALSE)
    \/ ResolveDirectoryStep(MaxCacheOps, FALSE)
    \/ ResolveFileStep(MaxCacheOps, FALSE)

SpecCache == Init /\ [][NextCache]_vars

\* Staging checkpoints and reading them back.
NextCkp ==
    \/ NewFilesystemStep(MaxCkpOps, TRUE)
    \/ StageCheckpointStep(MaxCkpOps, TRUE)
    \/ LastCheckpointStep(MaxCkpOps, TRUE)
    \/ HistoryStep(MaxCkpOps, TRUE)

SpecCkp == Init /\ [][NextCkp]_vars

\* Staging nodes and checkpoints, and asking for the history of a path.
NextHist ==
    \/ NewFilesystemStep(MaxOps, TRUE)
    \/ StageNodeStep(MaxOps, TRUE)
    \/ StageCheckpointStep(MaxOps, TRUE)
    \/ HistoryByPathStep(MaxOps, TRUE)

SpecHist == Init /\ [][NextHist]_vars

(***************************************************************************)
(* The calls on one Writer                                                 *)
(***************************************************************************)
\* The Writer never looks at the bytes it is given: byte i of what is handed to
\* it is i, so that a byte lost, repeated or out of place shows.
Segment(off, m) == [i \in 1..m |-> off + i]

RECURSIVE Flatten(_)
Flatten(reads) == IF reads = << >> THEN << >> ELSE Head(reads) \o Flatten(Tail(reads))

RECURSIVE Sum(_)
Sum(lens) == IF lens = << >> THEN 0 ELSE Head(lens) + Sum(Tail(lens))

\* The Read results of a reader handing out the bytes after off in pieces of the
\* given lengths.
RECURSIVE Cut(_, _)
Cut(off, lens) ==
    IF lens = << >> THEN << >>
    ELSE <<Segment(off, Head(lens))>> \o Cut(off + Head(lens), Tail(lens))

\* The readers that hand out at most k bytes: every Read fills at most the
\* maxChunkSize bytes of ReadFrom's buffer.
ReadLens(k) ==
    {lens \in UNION {[1..m -> 0..maxChunkSize] : m \in 0..MaxReads} : Sum(lens) <= k}

Room == MaxRaw - Len(wlog.input)

WriteCall ==
    /\ ~wlog.closed
    /\ \E m \in 0..Room, fail \in 0..(1 + 2 * ((Len(wr.chunkBuf) + Room) \div maxChunkSize)) :
          LET p == Segment(Len(wlog.input), m)
              r == Write(wr, p, fail)
          IN  /\ wr' = r.w
              /\ wlog' = WLog("Write", <<p>>, r.n, r.err, wlog.input \o p, wlog.failed \/ r.err # Nil, FALSE)
    /\ UNCHANGED <<FSVars, PingVars>>

\* wlog.input grows by the bytes ReadFrom took from the reader.
ReadFromCall ==
    /\ ~wlog.closed
    /\ \E lens \in ReadLens(Room), end \in ReaderEnds, fail \in 0..(1 + 2 * MaxReads), eof \in BOOLEAN :
          /\ fail <= 1 + 2 * Len(lens)
          /\ (eof => fail > 1)
          /\ (end \in {"eof with data", "error with data"} => lens # << >>)
          /\ LET reads == Cut(Len(wlog.input), lens)
                 r == ReadFrom(wr, reads, end, fail, eof)
             IN  /\ wr' = r.w
                 /\ wlog' = WLog("ReadFrom", reads, r.n, r.err,
                                 wlog.input \o SubSeq(Flatten(reads), 1, r.n),
                                 wlog.failed \/ r.err # Nil, FALSE)
    /\ UNCHANGED <<FSVars, PingVars>>

CloseCall ==
    /\ ~wlog.closed
    /\ \E fail \in 0..5 :
          LET r == Close(wr, fail) IN
          /\ wr' = r.w
          /\ wlog' = WLog("Close", << >>, 0, r.err, wlog.input, wlog.failed \/ r.err # Nil, TRUE)
    /\ UNCHANGED <<FSVars, PingVars>>

NextCodec ==
    \/ WriteCall
    \/ ReadFromCall
    \/ CloseCall

InitEmpty == Init /\ ~boot

SpecCodec == InitEmpty /\ [][NextCodec]_vars

\* Write and Close alone.
NextWrite ==
    \/ WriteCall
    \/ CloseCall

SpecWrite == InitEmpty /\ [][NextWrite]_vars

(***************************************************************************)
(* The pinger: Node.Ping, the steps of its Run goroutine, Close, readers   *)
(***************************************************************************)
NodePing ==
    /\ pg.run = "none"
    /\ \E allowNetOps \in BOOLEAN, self \in BOOLEAN :
          IF ~allowNetOps
          THEN /\ plog' = [plog EXCEPT !.obs = [op |-> "Ping", err |-> ErrOffline, val |-> 0]]
               /\ pg' = pg
          ELSE /\ pg' = Ping(self)
               /\ plog' = [plog EXCEPT !.obs = [op |-> "Ping", err |-> Nil, val |-> 0]]
    /\ UNCHANGED <<FSVars, CodecVars>>

\* Run up to its loop: p.nd.Identity().
RunIdentity ==
    /\ pg.run = "start"
    /\ \E err \in {Nil, ErrIdentity} :
          pg' = [pg EXCEPT !.run = IF err # Nil THEN "returned" ELSE "select"]
    /\ UNCHANGED <<plog, FSVars, CodecVars>>

\* case <-ctx.Done(): the break leaves the select, not the loop.
RunCtxDone ==
    /\ pg.run = "select"
    /\ pg.done
    /\ plog.spins < MaxNow
    /\ plog' = [plog EXCEPT !.spins = @ + 1]
    /\ pg' = [pg EXCEPT !.run = "select"]
    /\ UNCHANGED <<FSVars, CodecVars>>

\* case <-tckr.C: ready whenever the ticker has fired, cancelled context or not.
RunTick ==
    /\ pg.run = "select"
    /\ plog.now < MaxNow
    /\ IF pg.self
       THEN /\ pg' = selfTick(pg, plog.now + 1)
            /\ plog' = [plog EXCEPT !.now = @ + 1, !.attempts = @ + 1, !.result = "ok",
                                    !.okSeen = plog.now + 1, !.okTrip = 0]
       ELSE /\ pg' = [pg EXCEPT !.run = "pinging"]
            /\ plog' = [plog EXCEPT !.now = @ + 1, !.pings = @ + 1]
    /\ UNCHANGED <<FSVars, CodecVars>>

\* ping() returns and Run stores its result.
RunPingDone ==
    /\ pg.run = "pinging"
    /\ \E res \in PingResults :
          /\ pg' = [pingDone(pg, res, plog.now) EXCEPT !.run = "select"]
          /\ plog' = [plog EXCEPT !.attempts = @ + 1,
                                  !.result = IF res.err = Nil THEN "ok" ELSE "fail",
                                  !.okSeen = IF res.err = Nil THEN plog.now ELSE @,
                                  !.okTrip = IF res.err = Nil THEN res.roundtrip ELSE @]
    /\ UNCHANGED <<FSVars, CodecVars>>

PingerCloseCall ==
    /\ pg.run # "none"
    /\ pg' = ClosePinger(pg)
    /\ plog' = [plog EXCEPT !.obs = [op |-> "Close", err |-> Nil, val |-> 0]]
    /\ UNCHANGED <<FSVars, CodecVars>>

ErrCall ==
    /\ pg.run # "none"
    /\ plog' = [plog EXCEPT !.obs = [op |-> "Err", err |-> pg.err, val |-> 0]]
    /\ UNCHANGED <<pg, FSVars, CodecVars>>

LastSeenCall ==
    /\ pg.run # "none"
    /\ plog' = [plog EXCEPT !.obs = [op |-> "LastSeen", err |-> Nil, val |-> pg.lastSeen]]
    /\ UNCHANGED <<pg, FSVars, CodecVars>>

RoundtripCall ==
    /\ pg.run # "none"
    /\ plog' = [plog EXCEPT !.obs = [op |-> "Roundtrip", err |-> Nil, val |-> pg.roundtrip]]
    /\ UNCHANGED <<pg, FSVars, CodecVars>>

NextPing ==
    \/ NodePing
    \/ RunIdentity
    \/ RunCtxDone
    \/ RunTick
    \/ RunPingDone
    \/ PingerCloseCall
    \/ ErrCall
    \/ LastSeenCall
    \/ RoundtripCall

SpecPing == InitEmpty /\ [][NextPing]_vars

NextIDs ==
    \/ NewFilesystemCall
    \/ NextIDCall

SpecID == Init /\ [][NextIDs]_vars

(***************************************************************************)
(* Two threads in NextID on the same FS.  The FS holds no lock, so the     *)
(* Get and the Put of one call are separate steps on the KV.               *)
(***************************************************************************)
NextIDGet(t) ==
    /\ pc[t] = "idle"
    /\ Len(got[t]) < MaxCalls
    /\ NextCount(kv.nodeCount) <= MaxID
    /\ \E fail \in 0..2 :
          IF fail # 0
          THEN /\ ret' = Ret("NextID", << >>, << >>, [node |-> NoNode, err |-> IOError], 0)
               /\ UNCHANGED <<pc, cnt>>
          ELSE /\ cnt' = [cnt EXCEPT ![t] = NextCount(kv.nodeCount)]
               /\ pc' = [pc EXCEPT ![t] = "put"]
               /\ ret' = ret
    /\ UNCHANGED <<kv, root, index, boot, staged, headCommit, issued, nOps, got, ckps, CodecVars, PingVars>>

NextIDPut(t) ==
    /\ pc[t] = "put"
    /\ \E fail \in {0, 3} :
          LET r == IF fail = 3 THEN PutFailed ELSE [id |-> cnt[t], err |-> Nil] IN
          /\ kv' = IF fail = 3 THEN kv ELSE [kv EXCEPT !.nodeCount = PutUint64(cnt[t])]
          /\ got' = [got EXCEPT ![t] = Append(@, r.id)]
          /\ ret' = Ret("NextID", << >>, << >>, [node |-> NoNode, err |-> r.err], r.id)
    /\ pc' = [pc EXCEPT ![t] = "idle"]
    /\ UNCHANGED <<root, index, boot, staged, headCommit, issued, nOps, cnt, ckps, CodecVars, PingVars>>

NextConc == \E t \in Threads : NextIDGet(t) \/ NextIDPut(t)

SpecConc == Init /\ [][NextConc]_vars

(***************************************************************************)
(* Properties of SubmitCommit                                              *)
(***************************************************************************)
IsSubset(m1, m2) == \A k \in DOMAIN m1 : Has(m2, k) /\ m2[k] = m1[k]

\* C1: after SubmitCommit returns success, everything that was in stage/objects,
\* stage/tree and stage/checkpoints before the call is in objects, tree and
\* checkpoints, and the three stage namespaces are empty.
C1_StagePromoted ==
    [][(ret'.op = "SubmitCommit" /\ ret'.err = Nil) =>
          /\ IsSubset(kv.stageObjects, kv'.objects)
          /\ IsSubset(kv.stageTree, kv'.tree)
          /\ IsSubset(kv.stageCheckpoints, kv'.checkpoints)
          /\ kv'.stageObjects = EmptyMap
          /\ kv'.stageTree = EmptyMap
          /\ kv'.stageCheckpoints = EmptyMap]_vars

\* C2: whenever SubmitCommit returns an error, the stage namespaces, the live
\* namespaces and the HEAD ref are what they were before the call.
C2_AllOrNothing ==
    [][(ret'.op = "SubmitCommit" /\ ret'.err # Nil) =>
          /\ kv'.stageObjects = kv.stageObjects
          /\ kv'.stageTree = kv.stageTree
          /\ kv'.stageCheckpoints = kv.stageCheckpoints
          /\ kv'.objects = kv.objects
          /\ kv'.tree = kv.tree
          /\ kv'.checkpoints = kv.checkpoints
          /\ kv'.refs = kv.refs]_vars

\* A SubmitCommit that failed on the KV after HEAD was resolved, with a node and a
\* checkpoint in the stage.
C2_Witness ==
    /\ ret.op = "SubmitCommit"
    /\ ret.err = IOError
    /\ Has(kv.refs, "head")
    /\ kv.stageCheckpoints # EmptyMap
    /\ CommitRoot(ret.arg[1]) # CommitRoot(headCommit)

\* C3: SubmitCommit returns NoChange whenever the commit's root equals the root of
\* the commit HEAD points to, also right after that commit was submitted.
C3_NoChange ==
    [][(/\ ret'.op = "SubmitCommit"
        /\ ret'.err # IOError
        /\ headCommit # NoNode
        /\ CommitRoot(ret'.arg[1]) = CommitRoot(headCommit)) =>
          ret'.err = ErrNoChange]_vars

\* C4: on an empty filesystem, after one file was staged, SubmitCommit of a commit
\* whose root is the staged root directory succeeds, and Head() then succeeds and
\* returns a commit with that root.
C4_FirstCommit ==
    (/\ ~boot
     /\ ret.op = "SubmitCommit"
     /\ ret.err # IOError
     /\ staged[FilePath] # NoHash
     /\ CommitRoot(ret.arg[1]) = staged[RootPath]) =>
       /\ ret.err = Nil
       /\ HeadOf(FSState, 0).err = Nil
       /\ CommitRoot(HeadOf(FSState, 0).node) = staged[RootPath]

(***************************************************************************)
(* Properties of StageNode and of the resolvers                            *)
(***************************************************************************)
\* The key of a node's path -> hash mapping in stage/tree.
StageTreeKey(nd) == IF nd.type = "directory" THEN nd.path \o <<".">> ELSE nd.path

\* C5: after StageNode(n) returns success, n and every directory on its parent
\* chain up to the root is stored in stage/objects under its hash and has its
\* path mapped to that hash in stage/tree.
C5_ChainStaged ==
    (ret.op = "StageNode" /\ ret.err = Nil) =>
       /\ Last(ret.arg).path = RootPath
       /\ \A i \in 1..Len(ret.arg) :
             /\ Has(kv.stageObjects, HashOf(ret.arg[i]))
             /\ kv.stageObjects[HashOf(ret.arg[i])] = marshalNode(ret.arg[i])
             /\ Has(kv.stageTree, StageTreeKey(ret.arg[i]))
             /\ kv.stageTree[StageTreeKey(ret.arg[i])] = HashOf(ret.arg[i])

\* A file staged over an earlier stage of its chain.
C5_Witness ==
    /\ ret.op = "StageNode"
    /\ ret.err = Nil
    /\ Len(ret.arg) = 3
    /\ nOps = 2
    /\ Cardinality(DOMAIN kv.stageObjects) > 3

ResolveAs(st, p) == IF p = FilePath THEN ResolveFile(st, p, 0) ELSE ResolveDirectory(st, p, 0)

ResolvesTo(st, p, hash) ==
    /\ ResolveAs(st, p).err = Nil
    /\ ResolveAs(st, p).node # NoNode
    /\ HashOf(ResolveAs(st, p).node) = hash

\* C6: the node last staged at a path is what ResolveFile / ResolveDirectory
\* return for it, from this FS and from a fresh FS on the same KV; a directory is
\* keyed with the "/." marker, beside the files below it.
C6_StageResolveRoundTrip ==
    \A p \in StagedPaths :
       staged[p] # NoHash =>
          /\ ResolvesTo(FSState, p, staged[p])
          /\ ResolvesTo(NewFilesystem(kv), p, staged[p])
          /\ (p # FilePath => Has(kv.stageTree, p \o <<".">>) /\ kv.stageTree[p \o <<".">>] = staged[p])

\* C23: whatever was staged and looked up before, NodeByHash(h) on a healthy
\* KV answers with a node whose hash is h, the node stored under h in objects or
\* stage/objects; so too for the hash of an earlier version of a path.
C23_HashIndexCoherent ==
    \A hash \in AllHashes :
       LET r == NodeByHash(FSState, hash, 0, 0) IN
       r.err = Nil =>
          /\ HashOf(r.node) = hash
          /\ r.node = loadNode(kv, hash, 0, 0).node

\* C7: StageNode of a Commit returns an error and leaves stage/objects,
\* stage/tree, the trie and the hash index unchanged.
C7_CommitRejected ==
    [][(ret'.op = "StageNode" /\ ret'.node.type = "commit") =>
          /\ ret'.err # Nil
          /\ kv'.stageObjects = kv.stageObjects
          /\ kv'.stageTree = kv.stageTree
          /\ root' = root
          /\ index' = index]_vars

\* A commit was refused while the stage held nodes.
C7_Witness ==
    /\ ret.op = "StageNode"
    /\ ret.node.type = "commit"
    /\ ret.err = ErrUseSubmitCommit
    /\ kv.stageObjects # EmptyMap

\* The key a resolver looks its argument up under.
ResolveKey(op, p) == IF op = "ResolveDirectory" THEN Clean(p) \o <<".">> ELSE p
Resolvers == {"ResolveNode", "ResolveDirectory", "ResolveFile"}
Absent(key) == ~Has(root, key) /\ ~Has(kv.tree, key) /\ ~Has(kv.stageTree, key)

\* C8: for a path with no entry in the trie, in tree/ or in stage/tree/, the
\* resolvers return no node and turn the absence into no error (the only error
\* is a failure of the KV itself), and change neither the KV nor the caches.
C8_AbsentIsNilNil ==
    [][(ret'.op \in Resolvers /\ Absent(ResolveKey(ret'.op, ret'.path))) =>
          /\ ret'.node = NoNode
          /\ ret'.err \in {Nil, IOError}
          /\ kv' = kv
          /\ root' = root
          /\ index' = index]_vars

\* ResolveFile returned (nil, nil) for /d/b while the directory /d is staged.
C8_Witness ==
    /\ ret.op = "ResolveFile"
    /\ ret.path = FilePath
    /\ ret.node = NoNode
    /\ ret.err = Nil
    /\ Absent(FilePath)
    /\ Has(kv.stageTree, DirPath \o <<".">>)

(***************************************************************************)
(* Properties of NextID                                                    *)
(***************************************************************************)
\* C9: every NextID call of a single writer that returns no error returns a value
\* greater than every value returned before (1 on an empty KV), leaves that value
\* in stats/node-count, and never lowers the counter; restarts included.
C9_StrictlyMonotone ==
    [][(ret'.op = "NextID" /\ ret'.err = Nil) =>
          /\ \A i \in issued : ret'.id > i
          /\ (kv.nodeCount = << >> => ret'.id = 1)
          /\ kv'.nodeCount = PutUint64(ret'.id)
          /\ Uint64(kv'.nodeCount) >= Uint64(kv.nodeCount)]_vars

\* C22: a NextID call whose Get or Put on stats/node-count failed returns an
\* error: an id returned without error is not 0 and is the one the call left in
\* stats/node-count.
C22_ErrorsPropagate ==
    [][ret'.op = "NextID" =>
          /\ (ret'.err = Nil => ret'.id # 0 /\ kv'.nodeCount = PutUint64(ret'.id))
          /\ (ret'.err # Nil => ret'.err = IOError /\ ret'.id = 0 /\ kv' = kv)]_vars

\* C10: two threads that each completed one NextID call on a fresh counter hold
\* two different ids, and the counter stands at two.
C10_AtomicIncrement ==
    (\A t \in Threads : pc[t] = "idle" /\ Len(got[t]) = 1 /\ got[t][1] # PutFailed.id) =>
       /\ got[1][1] # got[2][1]
       /\ Uint64(kv.nodeCount) = 2

(***************************************************************************)
(* Properties of the checkpoint calls                                      *)
(***************************************************************************)
\* The checkpoints staged for an id.
StagedFor(id) == {c \in ckps : c.idLink = id}

\* C11: LastCheckpoint(id) returns the checkpoint of id with the highest index
\* (the staged one when id's checkpoints are only staged), and fails with
\* "No last checkpoint" when id has no checkpoint.
C11_LastCheckpoint ==
    [][(ret'.op = "LastCheckpoint" /\ ret'.err # IOError) =>
          IF StagedFor(ret'.id) = {}
          THEN ret'.err = ErrNoLastCheckpoint
          ELSE /\ ret'.err = Nil
               /\ ret'.out = <<Last(SortByIndex(StagedFor(ret'.id)))>>]_vars

\* C12: History(id) returns exactly the checkpoints staged for id, none lost or
\* overwritten and none of another id, ascending by index; for an id with no
\* checkpoint it returns an empty sequence and no error.
C12_History ==
    [][(ret'.op = "History" /\ ret'.err # IOError) =>
          /\ ret'.err = Nil
          /\ ret'.out = SortByIndex(StagedFor(ret'.id))]_vars

(***************************************************************************)
(* Properties of the Writer                                                *)
(***************************************************************************)
\* Reading a stream back: the trailer is its last trailerSize bytes, the index
\* the indexSize bytes before it; chunk i is the bytes from rec[i].zipOff up to
\* rec[i+1].zipOff, decoded.
StreamTrailer(stream) == unmarshalTrailer(SubSeq(stream, Len(stream) - trailerSize + 1, Len(stream)))

StreamIndex(stream) ==
    LET size == StreamTrailer(stream).indexSize
        from == Len(stream) - trailerSize - size
    IN  [i \in 1..(size \div indexChunkSize) |->
            unmarshalRecord(SubSeq(stream, from + (i - 1) * indexChunkSize + 1, from + i * indexChunkSize))]

DecodeChunk(stream, lo, hi) ==
    LET enc == SubSeq(stream, lo + 1, hi) IN
    IF Decodable(enc) THEN Decode(enc) ELSE <<-1>>

RECURSIVE DecodeChunks(_, _, _)
DecodeChunks(stream, recs, i) ==
    IF i >= Len(recs) THEN << >>
    ELSE DecodeChunk(stream, recs[i].zipOff, recs[i + 1].zipOff) \o DecodeChunks(stream, recs, i + 1)

ReadBack(stream) == DecodeChunks(stream, StreamIndex(stream), 1)

\* C13: the bytes given to a Writer in Write calls, in whatever pieces, are what
\* reading the stream back chunk by chunk along the index yields after Close.
C13_RoundTrip ==
    (wlog.op = "Close" /\ ~wlog.failed) => ReadBack(wr.sink) = wlog.input

\* A closed stream of more than two chunks, the last one short.
C13_Witness ==
    /\ wlog.op = "Close"
    /\ ~wlog.failed
    /\ Len(wlog.input) = 2 * maxChunkSize + 1
    /\ ReadBack(wr.sink) = Segment(0, 2 * maxChunkSize + 1)

\* The chunks of L bytes written with Write: their number, the raw length of
\* chunk i and the length of its encoding.
NChunks(L) == (L + maxChunkSize - 1) \div maxChunkSize
ChunkLen(L, i) == Min(maxChunkSize, L - (i - 1) * maxChunkSize)
EncLen(L, i) == Len(Encode(Segment(0, ChunkLen(L, i))))

RECURSIVE ZipBefore(_, _)
ZipBefore(L, i) == IF i <= 1 THEN headerSize ELSE ZipBefore(L, i - 1) + EncLen(L, i - 1)

\* C14: the index of a stream of N chunks closed once has N + 1 records: record i
\* holds the raw offset and the absolute compressed offset at the start of chunk
\* i, the last one the offsets after the last chunk; the trailer's indexSize is
\* 16 * (N + 1); an empty stream is header, the record (0, headerSize), trailer.
C14_IndexRecords ==
    (wlog.op = "Close" /\ ~wlog.failed) =>
       LET L == Len(wlog.input)
           N == NChunks(L)
           idx == StreamIndex(wr.sink)
       IN  /\ Len(idx) = N + 1
           /\ idx = wr.index
           /\ \A i \in 1..N :
                 idx[i] = [rawOff |-> (i - 1) * maxChunkSize, zipOff |-> ZipBefore(L, i)]
           /\ idx[N + 1] = [rawOff |-> L, zipOff |-> ZipBefore(L, N + 1)]
           /\ ZipBefore(L, N + 1) = Len(wr.sink) - trailerSize - indexChunkSize * (N + 1)
           /\ StreamTrailer(wr.sink).indexSize = 16 * (N + 1)
           /\ (N = 0 => wr.sink = makeHeader(algoType, currentVersion)
                                    \o marshalRecord([rawOff |-> 0, zipOff |-> headerSize])
                                    \o marshalTrailer(wr.trailer))

\* A closed stream of two chunks, the second one short.
C14_Witness ==
    /\ wlog.op = "Close"
    /\ ~wlog.failed
    /\ Len(wlog.input) = maxChunkSize + 1
    /\ Len(wr.index) = NChunks(Len(wlog.input)) + 1
    /\ Len(wr.sink) > headerSize + trailerSize

\* C15: ReadFrom is Write fed from a reader: however the reader cuts the input
\* into Read results, ReadFrom followed by Close leaves the chunk boundaries,
\* index and output that Write of the same bytes followed by Close leaves, and
\* ReadFrom returns the number of bytes read.
C15_ReadFromIsWrite ==
    [][(wlog'.op = "ReadFrom" /\ wlog'.err = Nil) =>
          LET input == Flatten(wlog'.arg)
              viaWrite == Close(Write(wr, input, 0).w, 0).w
              viaReadFrom == Close(wr', 0).w
          IN  /\ wlog'.n = Len(input)
              /\ viaReadFrom.index = viaWrite.index
              /\ viaReadFrom.sink = viaWrite.sink]_vars

\* C24: whatever the mix of Write and ReadFrom calls, the input keeps its order:
\* the chunks emitted are the first rawOff bytes handed to the Writer and the
\* chunk buffer holds the bytes after them, so that the closed stream reads back
\* as the whole input in the order it was handed over.
C24_OrderPreserved ==
    ~wlog.failed =>
       /\ (~wlog.closed => wr.chunkBuf = SubSeq(wlog.input, wr.rawOff + 1, Len(wlog.input)))
       /\ (wlog.closed => ReadBack(wr.sink) = wlog.input)

\* The compressed offset a chunk recorded at index position i ends at.
NextZipOff(w, i) == IF i < Len(w.index) THEN w.index[i + 1].zipOff ELSE w.zipOff

\* C16: a call in which Encode fails returns that error, writes no byte of the
\* chunk, does not advance rawOff and zipOff past it, and leaves no index record
\* for it: every record of the index is that of a chunk that was written.
C16_EncodeFailure ==
    [][(wlog'.err = ErrEncode /\ ~wlog.failed) =>
          /\ wr'.zipOff = Len(wr'.sink)
          /\ wr'.rawOff + Len(wr'.chunkBuf) <= Len(wlog'.input)
          /\ \A i \in 1..Len(wr'.index) : wr'.index[i].zipOff < NextZipOff(wr', i)]_vars

\* C17: a successful Write returns len(p) and leaves fewer than maxChunkSize
\* bytes in the chunk buffer; the chunks Write flushes are maxChunkSize bytes
\* each, so that after Close L bytes have made ceil(L / maxChunkSize) chunks.
C17_WriteChunks ==
    [][/\ (wlog'.op = "Write" /\ ~wlog'.failed) =>
             /\ wlog'.n = Len(wlog'.arg[1])
             /\ Len(wr'.chunkBuf) < maxChunkSize
             /\ \A i \in 1..Len(wr'.index) : wr'.index[i].rawOff = (i - 1) * maxChunkSize
             /\ wr'.rawOff = Len(wr'.index) * maxChunkSize
             /\ wr'.rawOff + Len(wr'.chunkBuf) = Len(wlog'.input)
       /\ (wlog'.op = "Close" /\ ~wlog'.failed) =>
             /\ Len(wr'.index) - 1 = NChunks(Len(wlog'.input))
             /\ \A i \in 1..(Len(wr'.index) - 2) :
                   wr'.index[i + 1].rawOff - wr'.index[i].rawOff = maxChunkSize]_vars

\* One Write of 2 * maxChunkSize bytes into a buffer that held a byte.
C17_Witness ==
    /\ wlog.op = "Write"
    /\ ~wlog.failed
    /\ Len(wlog.arg[1]) = 2 * maxChunkSize
    /\ Len(wlog.input) = 2 * maxChunkSize + 1
    /\ Len(wr.index) = 2
    /\ Len(wr.chunkBuf) = 1

\* The algorithm type a reader finds in the header of a stream.
StreamAlgo(stream) == BigEndianValue(SubSeq(stream, 5, 6))

\* C21: the trailer Close emits carries the algorithm type of the header (the
\* one the Writer was created with), chunkSize = maxChunkSize and the byte
\* length of the index written before it.
C21_Trailer ==
    (wlog.op = "Close" /\ ~wlog.failed) =>
       LET t == StreamTrailer(wr.sink) IN
       /\ StreamAlgo(wr.sink) = algoType
       /\ t.algo = StreamAlgo(wr.sink)
       /\ t.chunkSize = maxChunkSize
       /\ t.indexSize = Len(marshalIndex(wr.index))

\* C25: HistoryByPath of a path that resolves to no node returns an error or an
\* empty history; it never calls a method on the nil node.
C25_NoNilDereference ==
    ret.op = "HistoryByPath" =>
       /\ ret.err # PanicNilNode
       /\ (ret.node = NoNode => ret.err # Nil \/ ret.out = << >>)

(***************************************************************************)
(* The changeset of a commit                                               *)
(***************************************************************************)
\* C20: after a successful SubmitCommit the commit's changeset holds exactly one
\* CheckpointLink for every checkpoint staged since the previous commit: one
\* per (idLink, index) pair, none missing, none twice.
C20_Changeset ==
    [][ret'.op = "SubmitCommit" /\ nOps' = nOps + 1 /\ ret'.err = Nil =>
          /\ {ret'.out[i] : i \in DOMAIN ret'.out} = ckps
          /\ Len(ret'.out) = Cardinality(ckps)]_vars

(***************************************************************************)
(* Properties of the pinger                                                *)
(***************************************************************************)
\* C18: once Close has cancelled the context, Run issues no further ping request
\* and, with no ping in flight, updates no field of the pinger any more (it is
\* to return).
C18_CloseStopsRun ==
    [][pg.done =>
          /\ plog'.pings = plog.pings
          /\ (pg.run = "select" =>
                 /\ pg'.lastSeen = pg.lastSeen
                 /\ pg'.roundtrip = pg.roundtrip
                 /\ pg'.err = pg.err)]_vars

\* C19: err is ErrWaiting until the first attempt completes, the ping's error
\* after a failed attempt and nil after a successful one or a self-ping tick;
\* lastSeen and roundtrip are always those of the last success, so a failed
\* attempt leaves them alone and err = nil is never seen with older ones.
C19_ErrFollowsPing ==
    pg.run # "none" =>
       /\ (plog.attempts = 0 => pg.err = ErrWaiting)
       /\ (plog.result = "fail" => pg.err = ErrNoPing)
       /\ (plog.result = "ok" <=> pg.err = Nil)
       /\ pg.lastSeen = plog.okSeen
       /\ pg.roundtrip = plog.okTrip

\* Err() answered the ping's error after a ping that failed following one that
\* succeeded.
C19_Witness ==
    /\ plog.obs.op = "Err"
    /\ plog.obs.err = ErrNoPing
    /\ plog.result = "fail"
    /\ plog.okSeen > 0
    /\ plog.now > plog.okSeen
    /\ pg.lastSeen = plog.okSeen

====
